---- MODULE Spec2Model ----
(***************************************************************************)
(* Cloudflare-DDNS (src/main.py): one invocation of the script walks the   *)
(* configured zones and records and reconciles each record with the DNS    *)
(* provider.  Strings that the code inspects (names, proto) are modelled   *)
(* as sequences of one-character strings so that concatenation, endswith   *)
(* and lower() are computed, not assumed.                                  *)
(*                                                                         *)
(* The provider is outside the repository.  The model assumes of it what   *)
(* the code relies on: a successful POST stores the payload under a fresh  *)
(* id at the end of the zone's list, a successful PUT replaces the record  *)
(* with that id, a non-200 response changes nothing, an SRV record's name  *)
(* is service.proto.name, and a zone holds no more records of one type     *)
(* than one page of the listing returns.                                   *)
(***************************************************************************)
EXTENDS Integers, Sequences, FiniteSets, TLC

VARIABLES
    authentication,  \* config["authentication"]
    api,          \* the CloudflareAPI object of line 168, None before it is built
    config,       \* config["dns"]: the zones with their desired records
    public_ip,    \* the module global public_ip
    provider,     \* zone id -> the provider's records of that zone, in listing order
    domain_name,  \* run_ddns's local domain_name
    pc,           \* "start" | "zone" | "record" | "done" | "failed"
    zi,           \* index of the zone being processed (loop of line 172)
    ri,           \* index of the record being processed (loop of line 160)
    run,          \* number of the current invocation of the script
    error,        \* kind of the exception that ended the run, "" when none
    calls,        \* every provider request and raised error so far, in order
    provider0,    \* provider as it was when the current run started
    pre           \* provider as it was before the latest update_record

vars == <<authentication, api, config, public_ip, provider, domain_name, pc, zi, ri, run, error,
          calls, provider0, pre>>

----------------------------------------------------------------------------
(* Bounds of the model *)

\* desired records in the whole configuration
MaxRecords == 2
\* zones in the configuration
MaxZones == 2
\* records each zone holds at the provider before the first run
MaxInitial == 2
\* invocations of the script
MaxRuns == 2
\* non-200 responses of the provider in one behaviour
MaxFailures == 1

\* per_page of the listing request
PerPage == 100

----------------------------------------------------------------------------
(* Strings *)

Dot == <<".">>

\* str.lower() on the characters the model uses
LowerChar(c) ==
    CASE c = "T" -> "t"
      [] c = "C" -> "c"
      [] c = "P" -> "p"
      [] c = "U" -> "u"
      [] c = "D" -> "d"
      [] OTHER -> c

Lower(s) == [i \in 1..Len(s) |-> LowerChar(s[i])]

\* str.endswith
EndsWith(s, suffix) ==
    /\ Len(suffix) <= Len(s)
    /\ SubSeq(s, Len(s) - Len(suffix) + 1, Len(s)) = suffix

\* dict.get(key, default)
Get(d, key, default) == IF key \in DOMAIN d THEN d[key] ELSE default

----------------------------------------------------------------------------
(* The provider *)

None == [none |-> TRUE]

\* the zone's name as the provider reports it
ZoneName(zone_id) == <<<<"d">>, <<"e">>, <<"f">>, <<"g">>>>[zone_id]

\* the provider's representation of a payload stored under an id
Stored(id, data) ==
    IF data.type = "SRV"
    THEN [id |-> id, type |-> "SRV",
          name |-> data.data.service \o Dot \o data.data.proto \o Dot \o data.data.name,
          data |-> data.data]
    ELSE [id |-> id, type |-> data.type, name |-> data.name,
          content |-> data.content, ttl |-> data.ttl, proxied |-> data.proxied]

\* GET dns_records?per_page=100&type=...: the first page of the type's records
ListRecords(recs, type) ==
    LET ofType == SelectSeq(recs, LAMBDA rec : rec.type = type)
    IN  SubSeq(ofType, 1, IF Len(ofType) < PerPage THEN Len(ofType) ELSE PerPage)

\* check_record with the exact-match rule for every type
check_record_exact(recs, name, type) ==
    LET data == ListRecords(recs, type)
        record == SelectSeq(data, LAMBDA rec : rec.name = name)
    IN  IF record = <<>> THEN None ELSE record[1]

\* CloudflareAPI.check_record on a successful listing
check_record(recs, name, type) ==
    LET data == ListRecords(recs, type)
        record == IF type = "SRV"
                  THEN SelectSeq(data, LAMBDA rec : EndsWith(rec.name, name))
                  ELSE SelectSeq(data, LAMBDA rec : rec.name = name)
    IN  IF record = <<>> THEN None ELSE record[1]

\* CloudflareAPI.add_record on a successful POST
add_record(recs, data) == Append(recs, Stored(Len(recs) + 1, data))

\* a PUT that deletes the record and stores the payload as a new record
api_update_record_recreate(recs, record_id, data) ==
    SelectSeq(recs, LAMBDA rec : rec.id # record_id)
        \o <<Stored(Len(recs) + 1, data)>>

\* a PUT that replaces every record that has the name of the addressed record
api_update_record_by_name(recs, record_id, data) ==
    LET addressed == recs[CHOOSE k \in 1..Len(recs) : recs[k].id = record_id]
    IN  [i \in 1..Len(recs) |->
            IF recs[i].type = addressed.type /\ recs[i].name = addressed.name
            THEN Stored(recs[i].id, data)
            ELSE recs[i]]

\* CloudflareAPI.update_record on a successful PUT
api_update_record(recs, record_id, data) ==
    [i \in 1..Len(recs) |->
        IF recs[i].id = record_id THEN Stored(record_id, data) ELSE recs[i]]

----------------------------------------------------------------------------
(* The client *)

\* the fields CloudflareAPI.__init__ reads from the authentication dict
new_api(auth) ==
    [is_token_authorized |-> Get(auth, "use-token", FALSE),
     email               |-> Get(auth, "email", ""),
     api_auth            |-> Get(auth, "api-auth", "")]

\* the test of line 42 with the email test dropped
auth_config_error_no_email(auth) == new_api(auth).api_auth = ""

\* the test of line 42: CloudflareAPI.__init__ raises AuthenticationConfigError
auth_config_error(auth) ==
    LET self == new_api(auth)
    IN  self.api_auth = "" \/ (self.is_token_authorized /\ self.email = "")

\* the headers argument make_request passes on when the caller gives none
NoHeaders == <<>>

\* CloudflareAPI.getAuthHeaders; the caller's headers come last in the dict
getAuthHeaders(self, headers) ==
    IF self.is_token_authorized
    THEN headers @@ ("Authorization" :> ("Bearer " \o self.api_auth))
    ELSE headers @@ ("X-Auth-Email" :> self.email) @@ ("X-Auth-Key" :> self.api_auth)

----------------------------------------------------------------------------
(* Requests.  A handler works on ctx = [recs, calls, err]: the zone's      *)
(* records at the provider, the log, and the kind of an exception that     *)
(* was raised ("" when none).  who = [run, zone, rec] tags the log entries.*)
(* fail is the position in the log of the request the provider answers     *)
(* with a non-200 status (0: every request of the handler succeeds).       *)
(* Every request is logged with the headers it was sent with.              *)

\* make_request that returns on a non-200 response instead of raising
make_request_no_raise(ctx, entry, fail) ==
    [recs  |-> ctx.recs,
     calls |-> Append(ctx.calls, [entry EXCEPT !.ok = (Len(ctx.calls) + 1 # fail),
                                               !.headers = getAuthHeaders(api, @)]),
     err   |-> ""]

\* CloudflareAPI.make_request: log the request; a non-200 response raises
make_request(ctx, entry, fail) ==
    LET ok == Len(ctx.calls) + 1 # fail
    IN  [recs  |-> ctx.recs,
         calls |-> Append(ctx.calls, [entry EXCEPT !.ok = ok,
                                                   !.headers = getAuthHeaders(api, @)]),
         err   |-> IF ok THEN "" ELSE "CloudflareAPIError"]

\* the request of CloudflareAPI.get_domain_name
get_domain_name(ctx, who, zone_id, fail) ==
    make_request(ctx, [run |-> who.run, zone |-> who.zone, rec |-> who.rec,
                       op |-> "get_domain_name", zone_id |-> zone_id,
                       headers |-> NoHeaders, ok |-> TRUE], fail)

\* the request of CloudflareAPI.check_record
request_check_record(ctx, who, name, type, fail) ==
    make_request(ctx, [run |-> who.run, zone |-> who.zone, rec |-> who.rec,
                       op |-> "check_record", type |-> type, name |-> name,
                       headers |-> NoHeaders, ok |-> TRUE], fail)

\* the request of CloudflareAPI.add_record and its effect at the provider
request_add_record(ctx, who, data, fail) ==
    LET c == make_request(ctx, [run |-> who.run, zone |-> who.zone, rec |-> who.rec,
                                op |-> "add_record", data |-> data,
                                headers |-> NoHeaders, ok |-> TRUE], fail)
    IN  IF c.calls[Len(c.calls)].ok
        THEN [c EXCEPT !.recs = add_record(ctx.recs, data)]
        ELSE c

\* the request of CloudflareAPI.update_record and its effect at the provider
request_update_record(ctx, who, record_id, data, fail) ==
    LET c == make_request(ctx, [run |-> who.run, zone |-> who.zone, rec |-> who.rec,
                                op |-> "update_record", id |-> record_id,
                                data |-> data, headers |-> NoHeaders,
                                ok |-> TRUE], fail)
    IN  IF c.calls[Len(c.calls)].ok
        THEN [c EXCEPT !.recs = api_update_record(ctx.recs, record_id, data)]
        ELSE c

\* raise of an exception that is no provider response
Raise(ctx, who, kind) ==
    [recs  |-> ctx.recs,
     calls |-> Append(ctx.calls, [run |-> who.run, zone |-> who.zone, rec |-> who.rec,
                                  op |-> "raise", kind |-> kind, ok |-> FALSE]),
     err   |-> kind]

----------------------------------------------------------------------------
(* The record handlers *)

\* to_send of handle_http_record
http_to_send(ip, domain, name, ttl, proxied) ==
    [type    |-> "A",
     name    |-> IF name = <<"@">> \/ name = <<>> THEN domain ELSE name \o Dot \o domain,
     proxied |-> proxied,
     ttl     |-> ttl,
     content |-> ip]

\* http_decide with the ttl left out of the comparison
http_decide_no_ttl(ctx, who, ip, record, ttl, proxied, to_send, fail) ==
    IF record = None
    THEN request_add_record(ctx, who, to_send, fail)
    ELSE IF record.content = ip /\ record.proxied = proxied
         THEN ctx
         ELSE request_update_record(ctx, who, record.id, to_send, fail)

\* http_decide with the content left out of the comparison
http_decide_no_content(ctx, who, ip, record, ttl, proxied, to_send, fail) ==
    IF record = None
    THEN request_add_record(ctx, who, to_send, fail)
    ELSE IF record.ttl = ttl /\ record.proxied = proxied
         THEN ctx
         ELSE request_update_record(ctx, who, record.id, to_send, fail)

\* http_decide without the early return of line 103
http_decide_no_return(ctx, who, ip, record, ttl, proxied, to_send, fail) ==
    IF record = None
    THEN request_add_record(ctx, who, to_send, fail)
    ELSE request_update_record(ctx, who, record.id, to_send, fail)

\* the decision of handle_http_record once the lookup has answered
http_decide(ctx, who, ip, record, ttl, proxied, to_send, fail) ==
    IF record = None
    THEN request_add_record(ctx, who, to_send, fail)
    ELSE IF record.content = ip /\ record.ttl = ttl /\ record.proxied = proxied
         THEN ctx
         ELSE request_update_record(ctx, who, record.id, to_send, fail)

\* handle_http_record that asks the provider twice before it decides
handle_http_record_two_lookups(ctx, who, ip, domain, name, ttl, proxied, record_data, fail) ==
    LET to_send == http_to_send(ip, domain, name, ttl, proxied)
        c0 == request_check_record(ctx, who, to_send.name, "A", fail)
        c1 == IF c0.err # ""
              THEN c0
              ELSE request_check_record(c0, who, to_send.name, "A", fail)
    IN  IF c1.err # ""
        THEN c1
        ELSE http_decide(c1, who, ip, check_record(ctx.recs, to_send.name, "A"),
                         ttl, proxied, to_send, fail)

\* handle_http_record: the lookup, then the decision on its result
handle_http_record(ctx, who, ip, domain, name, ttl, proxied, record_data, fail) ==
    LET to_send == http_to_send(ip, domain, name, ttl, proxied)
        c1 == request_check_record(ctx, who, to_send.name, "A", fail)
    IN  IF c1.err # ""
        THEN c1
        ELSE http_decide(c1, who, ip, check_record(ctx.recs, to_send.name, "A"),
                         ttl, proxied, to_send, fail)

\* srv_name without the empty-name case
srv_name_no_empty(domain, name) ==
    IF name = <<"@">> THEN domain ELSE name \o Dot \o domain

\* name of handle_srv_record (line 111)
srv_name(domain, name) ==
    IF name = <<"@">> \/ name = <<>> THEN domain ELSE name \o Dot \o domain

\* srv_to_send without lower()
srv_to_send_no_lower(domain, name, record_data) ==
    LET n == IF name = <<"@">> \/ name = <<>> THEN domain ELSE name \o Dot \o domain
    IN  [type |-> "SRV",
         data |-> [name     |-> n,
                   service  |-> record_data.service,
                   proto    |-> <<"_">> \o record_data.proto,
                   priority |-> record_data.priority,
                   weight   |-> record_data.weight,
                   port     |-> record_data.port,
                   target   |-> n]]

\* to_send of handle_srv_record
srv_to_send(domain, name, record_data) ==
    LET n == srv_name(domain, name)
        proto == <<"_">> \o Lower(record_data.proto)
    IN  [type |-> "SRV",
         data |-> [name     |-> n,
                   service  |-> record_data.service,
                   proto    |-> proto,
                   priority |-> record_data.priority,
                   weight   |-> record_data.weight,
                   port     |-> record_data.port,
                   target   |-> n]]

\* srv_decide without the early return of line 133
srv_decide_no_return(ctx, who, record, to_send, fail) ==
    IF record = None
    THEN request_add_record(ctx, who, to_send, fail)
    ELSE request_update_record(ctx, who, record.id, to_send, fail)

\* the decision of handle_srv_record once the lookup has answered
srv_decide(ctx, who, record, to_send, fail) ==
    IF record = None
    THEN request_add_record(ctx, who, to_send, fail)
    ELSE IF record.data = to_send.data
         THEN ctx
         ELSE request_update_record(ctx, who, record.id, to_send, fail)

\* handle_srv_record that goes on to the SRV step when the Address step failed
handle_srv_record_continue(ctx, who, ip, domain, name, ttl, proxied, record_data, fail) ==
    LET c0 == handle_http_record(ctx, who, ip, domain, name, ttl, proxied, None, fail)
        to_send == srv_to_send(domain, name, record_data)
        c1 == request_check_record(c0, who, to_send.data.name, "SRV", fail)
    IN  IF c1.err # ""
        THEN c1
        ELSE srv_decide(c1, who, check_record(c0.recs, to_send.data.name, "SRV"),
                        to_send, fail)

\* handle_srv_record with the SRV step ahead of the Address step
handle_srv_record_srv_first(ctx, who, ip, domain, name, ttl, proxied, record_data, fail) ==
    LET to_send == srv_to_send(domain, name, record_data)
        c1 == request_check_record(ctx, who, to_send.data.name, "SRV", fail)
        c2 == IF c1.err # ""
              THEN c1
              ELSE srv_decide(c1, who, check_record(ctx.recs, to_send.data.name, "SRV"),
                              to_send, fail)
    IN  IF c2.err # ""
        THEN c2
        ELSE handle_http_record(c2, who, ip, domain, name, ttl, proxied, None, fail)

\* handle_srv_record: the Address step, then the SRV lookup and decision
handle_srv_record(ctx, who, ip, domain, name, ttl, proxied, record_data, fail) ==
    LET c0 == handle_http_record(ctx, who, ip, domain, name, ttl, proxied, None, fail)
    IN  IF c0.err # ""
        THEN c0
        ELSE LET to_send == srv_to_send(domain, name, record_data)
                 c1 == request_check_record(c0, who, to_send.data.name, "SRV", fail)
             IN  IF c1.err # ""
                 THEN c1
                 ELSE srv_decide(c1, who, check_record(c0.recs, to_send.data.name, "SRV"),
                                 to_send, fail)

\* the keys of HANDLES
HANDLES == {"A", "SRV"}

\* the module-level update_record: defaults, type check, dispatch
update_record(ctx, who, ip, domain, record, fail) ==
    LET name == record.name
        ttl == Get(record, "ttl", 1)
        record_type == Get(record, "type", "")
        proxied == IF record_type = "SRV"
                   THEN Get(record, "proxied", FALSE)
                   ELSE Get(record, "proxied", TRUE)
    IN  IF record_type = ""
        THEN Raise(ctx, who, "RuntimeError")
        ELSE IF record_type \notin HANDLES
        THEN Raise(ctx, who, "KeyError")
        ELSE IF record_type = "A"
        THEN handle_http_record(ctx, who, ip, domain, name, ttl, proxied, record, fail)
        ELSE handle_srv_record(ctx, who, ip, domain, name, ttl, proxied, record, fail)

----------------------------------------------------------------------------
(* Inputs *)

IPs == {"1.2.3.4", "5.6.7.8"}

\* config["authentication"]: each key is absent (<<>>) or has one value
AuthDict(use_token, email, api_auth) ==
    [k \in (IF use_token = <<>> THEN {} ELSE {"use-token"})
            \cup (IF email = <<>> THEN {} ELSE {"email"})
            \cup (IF api_auth = <<>> THEN {} ELSE {"api-auth"}) |->
        CASE k = "use-token" -> use_token[1]
          [] k = "email" -> email[1]
          [] k = "api-auth" -> api_auth[1]]

AuthChoices ==
    { AuthDict(t, e, a) : t \in {<<>>, <<TRUE>>, <<FALSE>>},
                          e \in {<<>>, <<"">>, <<"me@example.com">>},
                          a \in {<<>>, <<"">>, <<"secret">>} }

\* an authentication dict of key mode that the client accepts
KeyAuth == AuthDict(<<>>, <<"me@example.com">>, <<"secret">>)

\* the desired records a configuration is built from; a key a record does
\* not have is a key the configuration file leaves out
RecordChoices ==
    { [name |-> <<"@">>, type |-> "A"],
      [name |-> <<"s">>, type |-> "SRV", ttl |-> 120, proxied |-> TRUE,
       service |-> <<"_", "m">>, proto |-> <<"T", "C", "P">>,
       priority |-> 0, weight |-> 5, port |-> 25565],
      [name |-> <<>>, type |-> "SRV", service |-> <<"_", "h">>,
       proto |-> <<"u", "d", "p">>, priority |-> 10, weight |-> 0, port |-> 80],
      [name |-> <<"@">>, type |-> "SRV", proxied |-> FALSE, service |-> <<"_", "h">>,
       proto |-> <<"U", "d", "p">>, priority |-> 10, weight |-> 0, port |-> 443],
      [name |-> <<"s">>, type |-> "CNAME"],
      [name |-> <<"w">>] }

\* the record lists of at most n records drawn from R
RecLists(R, n) == UNION { [1..k -> R] : k \in 0..n }

\* the sequences of z record lists over R that hold at most n records together
RECURSIVE ZoneLists(_, _, _)
ZoneLists(R, z, n) ==
    IF z = 0
    THEN { <<>> }
    ELSE UNION { { <<l>> \o c : c \in ZoneLists(R, z - 1, n - Len(l)) }
                 : l \in RecLists(R, n) }

\* config["dns"] with z zones and at most n records: the i-th entry names zone i
Configs(R, z, n) ==
    { [i \in 1..z |-> [zone_id |-> i, records |-> c[i]]] : c \in ZoneLists(R, z, n) }

\* what a zone may hold before the first run: an A record of the zone's own
\* name, with ttl 1 or 120
InitialChoice(n, domain) ==
    [type |-> "A", name |-> domain, content |-> "1.2.3.4",
     ttl |-> IF n = 1 THEN 1 ELSE 120, proxied |-> TRUE]

InitialLists(n) == UNION { [1..k -> 1..2] : k \in 0..n }

\* the zone's list for a choice of initial records, ids in listing order
InitialRecords(l, zone_id) ==
    [i \in 1..Len(l) |-> Stored(i, InitialChoice(l[i], ZoneName(zone_id)))]

\* the starting points: a single desired record against every initial
\* list; the configurations of one zone against a zone that is empty or
\* holds one record; the configurations of several zones, of the records
\* named s, against zones that hold one record; and every authentication
\* dict with one Address record against an empty zone
Inputs ==
    { [auth |-> KeyAuth, config |-> c, initial |-> l, ip |-> ip] :
        c \in Configs(RecordChoices, 1, 1), l \in InitialLists(MaxInitial), ip \in IPs }
    \cup
    { [auth |-> KeyAuth, config |-> c, initial |-> l, ip |-> ip] :
        c \in Configs(RecordChoices, 1, MaxRecords), l \in InitialLists(1), ip \in IPs }
    \cup
    { [auth |-> a, config |-> c, initial |-> <<>>, ip |-> "5.6.7.8"] :
        a \in AuthChoices,
        c \in Configs({ r \in RecordChoices : Get(r, "type", "") = "A" }, 1, 1) }
    \cup
    { [auth |-> KeyAuth, config |-> c, initial |-> <<1>>, ip |-> "5.6.7.8"] :
        c \in UNION { Configs({ r \in RecordChoices : r.name = <<"s">> }, z, MaxRecords)
                      : z \in 2..MaxZones } }

----------------------------------------------------------------------------
(* The run *)

Who == [run |-> run, zone |-> zi, rec |-> ri]

\* the non-200 responses so far
Failures == Cardinality({ i \in 1..Len(calls) : calls[i].op # "raise" /\ ~calls[i].ok })

\* the positions at which a request of one step may fail (0: none fails)
FailAt(n) ==
    IF Failures < MaxFailures THEN {0} \cup { Len(calls) + k : k \in 1..n } ELSE {0}

\* after zone z: the next zone, or the end of the loop of line 172
NextZone(z) ==
    IF z < Len(config)
    THEN /\ zi' = z + 1
         /\ ri' = 0
         /\ pc' = "zone"
    ELSE /\ zi' = z
         /\ ri' = 0
         /\ pc' = "done"

\* lines 164-170: the configuration and the public IP are read
Init ==
    /\ \E in \in Inputs :
         /\ authentication = in.auth
         /\ config = in.config
         /\ public_ip = in.ip
         /\ provider = [z \in 1..Len(in.config) |-> InitialRecords(in.initial, z)]
    /\ api = None
    /\ domain_name = <<>>
    /\ pc = "start"
    /\ zi = 1
    /\ ri = 0
    /\ run = 1
    /\ error = ""
    /\ calls = <<>>
    /\ provider0 = provider
    /\ pre = provider

\* line 168: build the client from config["authentication"]; the loop of
\* line 172 ends at once when config["dns"] is empty
Main ==
    /\ pc = "start"
    /\ IF auth_config_error(authentication)
       THEN LET c == Raise([recs |-> <<>>, calls |-> calls, err |-> ""],
                           [run |-> run, zone |-> 0, rec |-> 0],
                           "AuthenticationConfigError")
            IN  /\ calls' = c.calls
                /\ error' = c.err
                /\ pc' = "failed"
                /\ api' = None
       ELSE /\ api' = new_api(authentication)
            /\ pc' = IF config = <<>> THEN "done" ELSE "zone"
            /\ UNCHANGED <<calls, error>>
    /\ UNCHANGED <<authentication, config, public_ip, provider, domain_name, zi, ri,
                   run, provider0, pre>>

\* run_ddns up to its loop: resolve the zone's name (lines 158-160)
RunDdns ==
    /\ pc = "zone"
    /\ \E fail \in FailAt(1) :
         LET zone_id == config[zi].zone_id
             c == get_domain_name([recs |-> provider[zone_id], calls |-> calls, err |-> ""],
                                  [run |-> run, zone |-> zi, rec |-> 0], zone_id, fail)
         IN  /\ calls' = c.calls
             /\ error' = c.err
             /\ IF c.err # ""
                THEN /\ pc' = "failed"
                     /\ UNCHANGED <<zi, ri, domain_name>>
                ELSE /\ domain_name' = ZoneName(zone_id)
                     /\ IF config[zi].records = <<>>
                        THEN NextZone(zi)
                        ELSE /\ pc' = "record"
                             /\ ri' = 1
                             /\ zi' = zi
    /\ UNCHANGED <<authentication, api, config, public_ip, provider, run, provider0, pre>>

\* one iteration of the loop of run_ddns: update_record (line 161)
UpdateRecord ==
    /\ pc = "record"
    /\ \E fail \in FailAt(4) :
         LET zone_id == config[zi].zone_id
             c == update_record([recs |-> provider[zone_id], calls |-> calls, err |-> ""],
                                Who, public_ip, domain_name, config[zi].records[ri], fail)
         IN  /\ calls' = c.calls
             /\ error' = c.err
             /\ provider' = [provider EXCEPT ![zone_id] = c.recs]
             /\ pre' = provider
             /\ IF c.err # ""
                THEN /\ pc' = "failed"
                     /\ UNCHANGED <<zi, ri>>
                ELSE IF ri < Len(config[zi].records)
                THEN /\ ri' = ri + 1
                     /\ UNCHANGED <<zi, pc>>
                ELSE NextZone(zi)
    /\ UNCHANGED <<authentication, api, config, public_ip, domain_name, run, provider0>>

\* the external scheduler invokes the script again
NewRun ==
    /\ pc \in {"done", "failed"}
    /\ run < MaxRuns
    /\ run' = run + 1
    /\ pc' = "start"
    /\ api' = None
    /\ zi' = 1
    /\ ri' = 0
    /\ error' = ""
    /\ domain_name' = <<>>
    /\ provider0' = provider
    /\ UNCHANGED <<authentication, config, public_ip, provider, calls, pre>>

Next == Main \/ RunDdns \/ UpdateRecord \/ NewRun

Spec == Init /\ [][Next]_vars

----------------------------------------------------------------------------
(* Vocabulary of the properties *)

Min(S) == CHOOSE x \in S : \A y \in S : x <= y

IsWrite(e) == e.op \in {"add_record", "update_record"}

IsRequest(e) == e.op # "raise"

\* no request of run r failed and run r raised nothing
RunClean(r) == \A i \in 1..Len(calls) : calls[i].run = r => calls[i].ok

\* the desired record a log entry belongs to
Desired(e) == config[e.zone].records[e.rec]

\* the effective DNS name of a desired record, as the specification states it
EffectiveName(name, domain) ==
    IF name \in {<<"@">>, <<>>} THEN domain ELSE name \o Dot \o domain

\* ttl and proxied of a desired record with the defaults of the configuration
DesiredTtl(d) == IF "ttl" \in DOMAIN d THEN d.ttl ELSE 1

DesiredProxied(d) == IF "proxied" \in DOMAIN d THEN d.proxied ELSE d.type = "A"

\* the latest log entry and the entries of the handler execution it belongs to
Last == calls[Len(calls)]

Handler(e) ==
    SelectSeq(calls, LAMBDA x : x.run = e.run /\ x.zone = e.zone /\ x.rec = e.rec)

\* the requests of a handler execution that concern the A record, and the SRV record
HttpPart(H) ==
    SelectSeq(H, LAMBDA x : \/ x.op = "check_record" /\ x.type = "A"
                            \/ IsWrite(x) /\ x.data.type = "A")

SrvPart(H) ==
    SelectSeq(H, LAMBDA x : \/ x.op = "check_record" /\ x.type = "SRV"
                            \/ IsWrite(x) /\ x.data.type = "SRV")

\* the latest step reconciled a desired record of a registered type
LastHandled ==
    /\ calls # <<>>
    /\ Last.rec >= 1
    /\ Get(Desired(Last), "type", "") \in {"A", "SRV"}

----------------------------------------------------------------------------

(* C1: idempotence of a whole run.  When run 1 completed without error,    *)
(* run 2 issues no create and no update, whatever the configuration and    *)
(* the starting provider state.                                            *)
SecondRunIsNoOp ==
    \A j \in 1..Len(calls) :
        (calls[j].run = 2 /\ RunClean(1)) => ~IsWrite(calls[j])

----------------------------------------------------------------------------

(* C2: the decision of Address reconciliation.  With the provider state    *)
(* before the handler: no type-A record of the effective name -> exactly   *)
(* one Create; the first such record equal in content, ttl and proxied ->  *)
(* no write; otherwise exactly one Update of that first record's id.  The  *)
(* payload is {type A, effective name, proxied, ttl, content = public IP}. *)
AddressDecision ==
    LastHandled =>
        LET d == Desired(Last)
            zone_id == config[Last.zone].zone_id
            recs0 == pre[zone_id]
            eff == EffectiveName(d.name, ZoneName(zone_id))
            payload == [type |-> "A", name |-> eff, proxied |-> DesiredProxied(d),
                        ttl |-> DesiredTtl(d), content |-> public_ip]
            M == { i \in 1..Len(recs0) : recs0[i].type = "A" /\ recs0[i].name = eff }
            first == recs0[Min(M)]
            H == HttpPart(Handler(Last))
        IN  /\ Len(H) >= 1
            /\ H[1].op = "check_record"
            /\ IF ~H[1].ok
               THEN Len(H) = 1
               ELSE IF M = {}
               THEN Len(H) = 2 /\ H[2].op = "add_record" /\ H[2].data = payload
               ELSE IF /\ first.content = public_ip
                       /\ first.ttl = DesiredTtl(d)
                       /\ first.proxied = DesiredProxied(d)
               THEN Len(H) = 1
               ELSE /\ Len(H) = 2
                    /\ H[2].op = "update_record"
                    /\ H[2].id = first.id
                    /\ H[2].data = payload

\* an Update that only a differing ttl triggered, on the first of two records of the name
AddressDecisionWitness ==
    /\ LastHandled
    /\ Desired(Last).type = "A"
    /\ LET recs0 == pre[config[Last.zone].zone_id]
           H == HttpPart(Handler(Last))
       IN  /\ Len(recs0) = 2
           /\ recs0[1].name = recs0[2].name
           /\ recs0[1].content = public_ip
           /\ recs0[1].proxied
           /\ recs0[1].ttl = 120
           /\ Len(H) = 2
           /\ H[2].op = "update_record"
           /\ H[2].ok

----------------------------------------------------------------------------
\* the configuration is one zone with one desired record, an Address record
SingleAddress ==
    /\ Len(config) = 1
    /\ Len(config[1].records) = 1
    /\ Get(config[1].records[1], "type", "") = "A"

(* C3: Address idempotence after a write.  In a configuration of a single  *)
(* Address record, once a Create or an Update has succeeded, no later      *)
(* invocation issues a Create or an Update.                                *)
AddressIdempotentAfterWrite ==
    SingleAddress =>
        \A i \in 1..Len(calls) : \A j \in 1..Len(calls) :
            (i < j /\ IsWrite(calls[i]) /\ calls[i].ok) => ~IsWrite(calls[j])

\* run 1 created the record and run 2 looked it up and finished
AddressIdempotentWitness ==
    /\ SingleAddress
    /\ run = 2
    /\ pc = "done"
    /\ \E i \in 1..Len(calls) : \E j \in 1..Len(calls) :
         /\ i < j
         /\ calls[i].op = "add_record" /\ calls[i].ok /\ calls[i].run = 1
         /\ calls[j].op = "check_record" /\ calls[j].ok /\ calls[j].run = 2

----------------------------------------------------------------------------
\* the names a lookup of the zone may ask for
Targets(zone_id) ==
    { EffectiveName(n, ZoneName(zone_id)) : n \in {<<"@">>, <<>>, <<"s">>, <<"w">>} }

\* the positions of the records that satisfy the matching rule
Matching(recs, name, type) ==
    { i \in 1..Len(recs) :
        /\ recs[i].type = type
        /\ IF type = "SRV" THEN EndsWith(recs[i].name, name) ELSE recs[i].name = name }

(* C4: the lookup matching rule.  On every list of records the provider    *)
(* can hold and every target name, check_record returns the first record   *)
(* of the requested type whose name ends with the target (type SRV) or     *)
(* equals it (any other type), and None exactly when there is no such      *)
(* record.  An SRV record named service.proto.name matches the target      *)
(* name under the SRV rule and not under the exact rule.                   *)
LookupRule ==
    \A z \in DOMAIN provider :
        /\ \A type \in {"A", "SRV"} : \A name \in Targets(z) :
              LET M == Matching(provider[z], name, type)
                  r == check_record(provider[z], name, type)
              IN  IF M = {} THEN r = None ELSE r = provider[z][Min(M)]
        /\ \A i \in 1..Len(provider[z]) :
              LET rec == provider[z][i]
              IN  rec.type = "SRV" =>
                    /\ check_record(<<rec>>, rec.data.name, "SRV") = rec
                    /\ check_record(<<[rec EXCEPT !.type = "A"]>>, rec.data.name, "A") = None

\* an SRV lookup was answered by a zone in which two SRV records end with a
\* target, one of them the record of a longer name
LookupRuleWitness ==
    /\ calls # <<>>
    /\ Last.op = "check_record" /\ Last.type = "SRV" /\ Last.ok
    /\ \E z \in DOMAIN provider : \E name \in Targets(z) :
         LET M == Matching(provider[z], name, "SRV")
         IN  /\ Cardinality(M) = 2
             /\ \E i \in M : provider[z][i].data.name # name
             /\ check_record(provider[z], name, "SRV") = provider[z][Min(M)]

----------------------------------------------------------------------------

(* C5: effective name derivation.  Every lookup and every payload of the   *)
(* reconciliation of a desired record, in the Address handler and in the   *)
(* Service handler, carries the same name: the zone's name when the        *)
(* desired name is "@" or empty, name.zone otherwise.                      *)
SameEffectiveName ==
    \A i \in 1..Len(calls) :
        LET e == calls[i]
        IN  (e.rec >= 1 /\ IsRequest(e)) =>
              LET eff == EffectiveName(Desired(e).name, ZoneName(config[e.zone].zone_id))
              IN  IF e.op = "check_record"
                  THEN e.name = eff
                  ELSE IF e.data.type = "A"
                  THEN e.data.name = eff
                  ELSE e.data.data.name = eff

\* an SRV payload for an empty desired name and an A payload for the name s
SameEffectiveNameWitness ==
    \E i \in 1..Len(calls) : \E j \in 1..Len(calls) :
        /\ IsWrite(calls[i]) /\ calls[i].data.type = "SRV" /\ calls[i].ok
        /\ Desired(calls[i]).name = <<>>
        /\ IsWrite(calls[j]) /\ calls[j].data.type = "A" /\ calls[j].ok
        /\ Desired(calls[j]).name = <<"s">>

----------------------------------------------------------------------------
\* the structured data desired for a Service record
DesiredData(d, eff) ==
    [name |-> eff, service |-> d.service, proto |-> <<"_">> \o Lower(d.proto),
     priority |-> d.priority, weight |-> d.weight, port |-> d.port, target |-> eff]

(* C6: the decision of Service reconciliation.  Once the Address step has  *)
(* completed, with the SRV records the zone held before the handler: no    *)
(* record whose name ends with the effective name -> exactly one Create;   *)
(* the first such record's data equal to the desired data -> no write;     *)
(* otherwise exactly one Update of that first record's id.                 *)
ServiceDecision ==
    (LastHandled /\ Desired(Last).type = "SRV") =>
        LET d == Desired(Last)
            zone_id == config[Last.zone].zone_id
            recs0 == pre[zone_id]
            eff == EffectiveName(d.name, ZoneName(zone_id))
            payload == [type |-> "SRV", data |-> DesiredData(d, eff)]
            M == Matching(recs0, eff, "SRV")
            first == recs0[Min(M)]
            A == HttpPart(Handler(Last))
            S == SrvPart(Handler(Last))
        IN  (\A k \in 1..Len(A) : A[k].ok) =>
              /\ Len(S) >= 1
              /\ S[1].op = "check_record"
              /\ IF ~S[1].ok
                 THEN Len(S) = 1
                 ELSE IF M = {}
                 THEN Len(S) = 2 /\ S[2].op = "add_record" /\ S[2].data = payload
                 ELSE IF first.data = payload.data
                 THEN Len(S) = 1
                 ELSE /\ Len(S) = 2
                      /\ S[2].op = "update_record"
                      /\ S[2].id = first.id
                      /\ S[2].data = payload

\* an Update of a record that the suffix rule matched
ServiceDecisionWitness ==
    /\ LastHandled
    /\ Desired(Last).type = "SRV"
    /\ LET S == SrvPart(Handler(Last))
           M == Matching(pre[config[Last.zone].zone_id], Last.data.data.name, "SRV")
       IN  /\ Last.op = "update_record" /\ Last.ok
           /\ Len(S) = 2
           /\ M # {}
           /\ Last.id = pre[config[Last.zone].zone_id][Min(M)].id

----------------------------------------------------------------------------

(* C7: the Service payload.  Every SRV payload sent is {type, data} with   *)
(* data {name, service, proto, priority, weight, port, target}; proto is   *)
(* "_" followed by the configured proto in lower case, name and target     *)
(* are the effective name, and the other fields are the configured ones.   *)
ServicePayloadShape ==
    \A i \in 1..Len(calls) :
        (IsWrite(calls[i]) /\ calls[i].data.type = "SRV") =>
            LET p == calls[i].data
                d == Desired(calls[i])
                eff == EffectiveName(d.name, ZoneName(config[calls[i].zone].zone_id))
            IN  /\ DOMAIN p = {"type", "data"}
                /\ DOMAIN p.data = {"name", "service", "proto", "priority", "weight",
                                    "port", "target"}
                /\ p.data.name = eff
                /\ p.data.target = eff
                /\ p.data.service = d.service
                /\ p.data.priority = d.priority
                /\ p.data.weight = d.weight
                /\ p.data.port = d.port
                /\ Len(p.data.proto) = Len(d.proto) + 1
                /\ p.data.proto[1] = "_"
                /\ \A k \in 1..Len(d.proto) :
                      /\ p.data.proto[k + 1] = LowerChar(d.proto[k])
                      /\ p.data.proto[k + 1] \notin {"T", "C", "P", "U", "D"}
                /\ d.proto = <<"T", "C", "P">> => p.data.proto = <<"_", "t", "c", "p">>

\* a payload was sent for a record configured with proto "TCP"
ServicePayloadWitness ==
    \E i \in 1..Len(calls) :
        /\ IsWrite(calls[i]) /\ calls[i].data.type = "SRV" /\ calls[i].ok
        /\ Desired(calls[i]).proto = <<"T", "C", "P">>
        /\ calls[i].data.data.proto = <<"_", "t", "c", "p">>

----------------------------------------------------------------------------

\* the error update_record raises with "Record type is not supported"
UnsupportedRecordType == "RuntimeError"

\* the type tag of a desired record is missing or not registered
Unsupported(d) == Get(d, "type", "") \notin {"A", "SRV"}

\* the current run has moved past record r of zone z
Passed(z, r) ==
    \/ pc = "done"
    \/ z < zi
    \/ z = zi /\ pc \in {"record", "failed"} /\ r < ri

(* C8: unsupported record type.  A desired record whose type tag is        *)
(* missing or is not registered ends the run with the error raised for     *)
(* unsupported types; no provider call is made for it or after it, and     *)
(* the run never moves past it.                                            *)
UnsupportedTypeEndsRun ==
    /\ \A i \in 1..Len(calls) :
          (calls[i].rec >= 1 /\ Unsupported(Desired(calls[i]))) =>
              /\ calls[i].op = "raise"
              /\ calls[i].kind = UnsupportedRecordType
              /\ \A j \in 1..Len(calls) : j > i => calls[j].run > calls[i].run
    /\ \A z \in 1..Len(config) : \A r \in 1..Len(config[z].records) :
          Unsupported(config[z].records[r]) => ~Passed(z, r)

----------------------------------------------------------------------------

(* C9: abort on first failure.  After a provider request that was answered *)
(* with a non-success status the run makes no further request and raises   *)
(* nothing else: the run has failed with the provider's error.             *)
AbortOnFirstFailure ==
    \A i \in 1..Len(calls) :
        (IsRequest(calls[i]) /\ ~calls[i].ok) =>
            /\ \A j \in 1..Len(calls) : j > i => calls[j].run > calls[i].run
            /\ calls[i].run = run => (pc = "failed" /\ error = "CloudflareAPIError")

\* the Address lookup of an SRV record of the first zone failed, with the
\* SRV step, a second record and a second zone still to come
AbortOnFirstFailureWitness ==
    /\ calls # <<>>
    /\ Last.op = "check_record" /\ Last.type = "A" /\ ~Last.ok
    /\ Last.run = run
    /\ Last.zone = 1 /\ Last.rec = 1
    /\ Desired(Last).type = "SRV"
    /\ Len(config) = 2
    /\ config[2].records # <<>>
    /\ pc = "failed"

----------------------------------------------------------------------------

(* C10: a failed run leaves the provider as the run found it.              *)
FailedRunLeavesStateUnchanged == pc = "failed" => provider = provider0

\* the provider state p after the successful writes among entries k..n of
\* the log that belong to the current run
RECURSIVE Replay(_, _, _)
Replay(p, k, n) ==
    IF k > n
    THEN p
    ELSE LET e == calls[k]
             z == config[e.zone].zone_id
         IN  IF e.run = run /\ IsWrite(e) /\ e.ok
             THEN Replay([p EXCEPT ![z] = IF e.op = "add_record"
                                          THEN add_record(p[z], e.data)
                                          ELSE api_update_record(p[z], e.id, e.data)],
                         k + 1, n)
             ELSE Replay(p, k + 1, n)

(* C10 as amended: a failed request changes nothing and nothing is rolled  *)
(* back.  From the failed request on, the provider holds the state it had  *)
(* when the run started with the creates and updates that succeeded before *)
(* the failed request applied; it is the starting state when no write      *)
(* succeeded before the failure.                                           *)
FailedRunKeepsEarlierWrites ==
    \A i \in 1..Len(calls) :
        (IsRequest(calls[i]) /\ ~calls[i].ok /\ calls[i].run = run) =>
            /\ provider = Replay(provider0, 1, i - 1)
            /\ (\A k \in 1..(i - 1) : ~(calls[k].run = run /\ IsWrite(calls[k])))
                  => provider = provider0

\* a run failed at the SRV lookup after its Address step had created a record
FailedRunKeepsEarlierWritesWitness ==
    /\ pc = "failed"
    /\ calls # <<>>
    /\ Last.op = "check_record" /\ Last.type = "SRV" /\ ~Last.ok
    /\ Len(calls) >= 2
    /\ calls[Len(calls) - 1].op = "add_record"
    /\ calls[Len(calls) - 1].ok
    /\ calls[Len(calls) - 1].run = run
    /\ provider # provider0

----------------------------------------------------------------------------
(* C11: building the client fails with AuthenticationConfigError exactly   *)
(* when api-auth is missing or empty, or token mode is on and email is     *)
(* missing or empty; key mode without an email is accepted.  When it       *)
(* fails, the run makes no provider request and processes no record.       *)
Missing(d, key) == key \notin DOMAIN d \/ d[key] = ""

TokenMode(d) == "use-token" \in DOMAIN d /\ d["use-token"]

AuthInvalid(d) == Missing(d, "api-auth") \/ (TokenMode(d) /\ Missing(d, "email"))

\* the client of run r has been built, or building it has failed
Built(r) == r < run \/ pc # "start"

AuthRaised(r) ==
    \E i \in 1..Len(calls) :
        /\ calls[i].run = r
        /\ calls[i].op = "raise"
        /\ calls[i].kind = "AuthenticationConfigError"

AuthCheck ==
    \A r \in 1..run :
        Built(r) =>
            /\ AuthRaised(r) <=> AuthInvalid(authentication)
            /\ AuthInvalid(authentication) =>
                  /\ \A i \in 1..Len(calls) :
                        calls[i].run = r => ~IsRequest(calls[i]) /\ calls[i].rec = 0
                  /\ provider = provider0
                  /\ (r = run => pc = "failed" /\ ri = 0)
            /\ (~TokenMode(authentication) /\ ~Missing(authentication, "api-auth")
                    /\ Missing(authentication, "email")) => ~AuthRaised(r)

\* token mode with an API credential and no email has ended the second run
AuthCheckWitness ==
    /\ TokenMode(authentication)
    /\ ~Missing(authentication, "api-auth")
    /\ "email" \notin DOMAIN authentication
    /\ run = 2
    /\ pc = "failed"
    /\ AuthRaised(run)
    /\ Len(calls) = 2

----------------------------------------------------------------------------
\* the ids of a zone's records
Ids(recs) == { recs[i].id : i \in 1..Len(recs) }

(* C12: the program never deletes a provider record.  Every record id that *)
(* exists before a record is handled exists after it, and every id that    *)
(* exists when a run starts exists for the rest of the run, whatever the   *)
(* outcomes of the requests.                                               *)
NoDeletion ==
    \A z \in DOMAIN provider :
        /\ Ids(pre[z]) \subseteq Ids(provider[z])
        /\ Ids(provider0[z]) \subseteq Ids(provider[z])
        /\ \A i \in 1..Len(calls) :
              IsRequest(calls[i]) =>
                  calls[i].op \in {"get_domain_name", "check_record",
                                   "add_record", "update_record"}

\* the second run has written after a first run that updated a record,
\* created one and then failed
NoDeletionWitness ==
    /\ run = 2
    /\ pc = "done"
    /\ provider # provider0
    /\ \E i, j, k \in 1..Len(calls) :
          /\ i < j /\ j < k
          /\ calls[i].run = 1 /\ calls[i].op = "update_record" /\ calls[i].ok
          /\ calls[j].run = 1 /\ calls[j].op = "add_record" /\ calls[j].ok
          /\ calls[k].run = 1 /\ IsRequest(calls[k]) /\ ~calls[k].ok

----------------------------------------------------------------------------
\* entry e concerns the A record, the SRV record
InHttpPart(e) ==
    \/ e.op = "check_record" /\ e.type = "A"
    \/ IsWrite(e) /\ e.data.type = "A"

InSrvPart(e) ==
    \/ e.op = "check_record" /\ e.type = "SRV"
    \/ IsWrite(e) /\ e.data.type = "SRV"

(* C13: Service reconciliation runs the Address reconciliation first.  In  *)
(* every execution of handle_srv_record the first request is the type-A    *)
(* lookup of the effective name; the A lookup and the A write that results *)
(* from it, for the same name, ttl and proxied, have been answered with    *)
(* success before the SRV lookup is issued; and when a request of the      *)
(* Address step fails, no SRV lookup and no SRV write is issued.           *)
AddressStepFirst ==
    (LastHandled /\ Desired(Last).type = "SRV") =>
        LET d == Desired(Last)
            eff == EffectiveName(d.name, ZoneName(config[Last.zone].zone_id))
            H == Handler(Last)
            A == { k \in 1..Len(H) : InHttpPart(H[k]) }
            S == { k \in 1..Len(H) : InSrvPart(H[k]) }
        IN  /\ H[1].op = "check_record"
            /\ H[1].type = "A"
            /\ H[1].name = eff
            /\ \A a \in A : \A b \in S : a < b
            /\ \A a \in A :
                  IsWrite(H[a]) =>
                      /\ H[a].data.name = eff
                      /\ H[a].data.ttl = DesiredTtl(d)
                      /\ H[a].data.proxied = DesiredProxied(d)
            /\ (\E a \in A : ~H[a].ok) => S = {}
            /\ S # {} => \A a \in A : H[a].ok

\* an SRV record whose Address step created the A record and whose SRV step
\* then looked up and created the SRV record
AddressStepFirstWitness ==
    /\ Len(calls) >= 5
    /\ Last.rec >= 1
    /\ Get(Desired(Last), "type", "") = "SRV"
    /\ Last.op = "add_record" /\ Last.data.type = "SRV" /\ Last.ok
    /\ calls[Len(calls) - 1].op = "check_record"
    /\ calls[Len(calls) - 1].type = "SRV"
    /\ calls[Len(calls) - 2].op = "add_record"
    /\ calls[Len(calls) - 2].data.type = "A"
    /\ calls[Len(calls) - 3].op = "check_record"
    /\ calls[Len(calls) - 3].type = "A"
    /\ calls[Len(calls) - 3].rec = Last.rec

----------------------------------------------------------------------------
\* the number of entries of a log that satisfy Test
Count(H, Test(_)) == Len(SelectSeq(H, Test))

IsRead(e) == e.op = "check_record"

(* C14: the provider-call budget of one desired record.  Handling a record *)
(* of a registered type performs one lookup and at most two writes.        *)
OneReadTwoWrites ==
    \A i \in 1..Len(calls) :
        (calls[i].rec >= 1 /\ Get(Desired(calls[i]), "type", "") \in HANDLES) =>
            LET H == Handler(calls[i])
            IN  /\ Count(H, IsRead) = 1
                /\ Count(H, IsWrite) <= 2

(* C14 as amended: an Address record takes one lookup (type A) and at most *)
(* one write; a Service record takes one type-A lookup, one type-SRV       *)
(* lookup when the Address step succeeded, and at most one write after     *)
(* each.  Every write directly follows a successful lookup of its own      *)
(* record and type, and that lookup reads the provider's state of that     *)
(* moment, the writes of earlier records included: a Create means that     *)
(* state held no match, an Update targets the first match in that state.   *)
CallBudget ==
    LastHandled =>
        LET H == Handler(Last)
            srv == Desired(Last).type = "SRV"
            recs0 == pre[config[Last.zone].zone_id]
            ReadOf(t) == Count(H, LAMBDA e : IsRead(e) /\ e.type = t)
            WriteOf(t) == Count(H, LAMBDA e : IsWrite(e) /\ e.data.type = t)
        IN  /\ ReadOf("A") = 1
            /\ ReadOf("SRV") = IF srv /\ Count(HttpPart(H), LAMBDA e : ~e.ok) = 0
                               THEN 1 ELSE 0
            /\ WriteOf("A") <= 1
            /\ WriteOf("SRV") <= IF srv THEN 1 ELSE 0
            /\ Count(H, IsRequest) = Len(H)
            /\ \A k \in 1..Len(H) :
                  IsWrite(H[k]) =>
                      /\ k >= 2
                      /\ IsRead(H[k - 1])
                      /\ H[k - 1].ok
                      /\ H[k - 1].type = H[k].data.type
                      /\ LET M == Matching(recs0, H[k - 1].name, H[k - 1].type)
                         IN  IF H[k].op = "add_record"
                             THEN M = {}
                             ELSE M # {} /\ H[k].id = recs0[Min(M)].id

\* the second record of a zone, a Service record, took two lookups and two
\* writes, and its Address step updated the record that the first record
\* had created in the same run
CallBudgetWitness ==
    /\ LastHandled
    /\ Last.rec = 2
    /\ Desired(Last).type = "SRV"
    /\ provider0[config[Last.zone].zone_id] = <<>>
    /\ LET H == Handler(Last)
       IN  /\ Len(H) = 4
           /\ \A k \in 1..4 : H[k].ok
           /\ H[2].op = "update_record"
           /\ H[4].op = "add_record"

----------------------------------------------------------------------------
\* the zone holds a type-A record of the name with the content
HoldsAddress(recs, name, content) ==
    \E k \in 1..Len(recs) :
        /\ recs[k].type = "A"
        /\ recs[k].name = name
        /\ recs[k].content = content

(* C15: convergence of a successful run.  When a run has completed without *)
(* error, then for every configured record, Address or Service, its zone   *)
(* holds a type-A record whose name is the record's effective name and     *)
(* whose content is the public IP.                                         *)
Convergence ==
    pc = "done" =>
        \A z \in 1..Len(config) : \A r \in 1..Len(config[z].records) :
            LET zone_id == config[z].zone_id
            IN  HoldsAddress(provider[zone_id],
                             EffectiveName(config[z].records[r].name, ZoneName(zone_id)),
                             public_ip)

\* a run has completed for a Service record whose zone held an A record of
\* the effective name with another content, and no A record with the
\* public IP, when the run started
ConvergenceWitness ==
    /\ pc = "done"
    /\ \E z \in 1..Len(config) : \E r \in 1..Len(config[z].records) :
          LET zone_id == config[z].zone_id
              eff == EffectiveName(config[z].records[r].name, ZoneName(zone_id))
          IN  /\ config[z].records[r].type = "SRV"
              /\ HoldsAddress(provider0[zone_id], eff, "1.2.3.4")
              /\ ~HoldsAddress(provider0[zone_id], eff, public_ip)

----------------------------------------------------------------------------
\* the effective names of the Service records configured for zone z
ServiceNames(z) ==
    { EffectiveName(config[z].records[r].name, ZoneName(config[z].zone_id)) :
        r \in { q \in 1..Len(config[z].records) :
                  Get(config[z].records[q], "type", "") = "SRV" } }

\* the record of the list stored under the id
ById(recs, id) == recs[CHOOSE k \in 1..Len(recs) : recs[k].id = id]

(* C16: a Service update stays on its own record.  When a zone's           *)
(* configuration holds Service records with distinct effective names,      *)
(* every SRV Update issued for one of them targets a provider record whose *)
(* data.name is the effective name of the record being reconciled.         *)
ServiceUpdateOnOwnRecord ==
    (LastHandled /\ Desired(Last).type = "SRV"
                 /\ Cardinality(ServiceNames(Last.zone)) >= 2) =>
        LET zone_id == config[Last.zone].zone_id
            eff == EffectiveName(Desired(Last).name, ZoneName(zone_id))
            H == Handler(Last)
        IN  \A k \in 1..Len(H) :
                (H[k].op = "update_record" /\ H[k].data.type = "SRV") =>
                    ById(pre[zone_id], H[k].id).data.name = eff

----------------------------------------------------------------------------
(* C17: the frame of Address reconciliation.  One execution of             *)
(* handle_http_record, for an Address record or as the first step of a     *)
(* Service record, leaves every type-A record of another name as it was;   *)
(* an Update changes only the record whose id the lookup returned, every   *)
(* other record of the same name stays as it was, and a Create only adds   *)
(* a record.  For an Address record nothing else of the provider changes:  *)
(* the records of other types and the other zones stay as they were.       *)
AddressFrame ==
    LastHandled =>
        LET zone_id == config[Last.zone].zone_id
            eff == EffectiveName(Desired(Last).name, ZoneName(zone_id))
            recs0 == pre[zone_id]
            recs1 == provider[zone_id]
            H == HttpPart(Handler(Last))
            found == check_record(recs0, eff, "A")
            updated == \E k \in 1..Len(H) : H[k].op = "update_record" /\ H[k].ok
            created == \E k \in 1..Len(H) : H[k].op = "add_record" /\ H[k].ok
        IN  /\ Len(recs1) >= Len(recs0)
            /\ \A k \in 1..Len(recs0) :
                  /\ (recs0[k].type = "A" /\ recs0[k].name # eff) => recs1[k] = recs0[k]
                  /\ (recs0[k].type = "A" /\ updated /\ recs0[k].id # found.id)
                        => recs1[k] = recs0[k]
                  /\ (recs0[k].type = "A" /\ ~updated) => recs1[k] = recs0[k]
                  /\ (recs0[k].type # "A" /\ Desired(Last).type = "A")
                        => recs1[k] = recs0[k]
            /\ updated => /\ found # None
                          /\ \A k \in 1..Len(H) :
                                H[k].op = "update_record" => H[k].id = found.id
            /\ Desired(Last).type = "A" =>
                  /\ \A z \in DOMAIN provider : z # zone_id => provider[z] = pre[z]
                  /\ Len(recs1) = Len(recs0) + IF created THEN 1 ELSE 0
                  /\ created => /\ recs1[Len(recs1)].type = "A"
                                /\ recs1[Len(recs1)].name = eff

\* an Address record whose zone held two records of its name, both unlike
\* the desired one: the first was updated and the second is as it was
AddressFrameWitness ==
    /\ LastHandled
    /\ Desired(Last).type = "A"
    /\ Last.op = "update_record" /\ Last.ok
    /\ LET recs0 == pre[config[Last.zone].zone_id]
           recs1 == provider[config[Last.zone].zone_id]
       IN  /\ Len(recs0) = 2
           /\ recs0[1].name = recs0[2].name
           /\ recs0[2].content # public_ip
           /\ recs1[1] # recs0[1]
           /\ recs1[2] = recs0[2]

----------------------------------------------------------------------------
\* headers a caller of make_request may pass
CallerHeaders ==
    { NoHeaders, [k \in {"Accept"} |-> "application/json"],
      [k \in {"X-Auth-Key"} |-> "other"] }

\* some header of the dict has the value
Carries(headers, value) == \E h \in DOMAIN headers : headers[h] = value

(* C18: authentication header construction.  In key mode the headers of    *)
(* every request carry the API key and the configured email appears in no  *)
(* header; in token mode the headers carry the API credential and the      *)
(* email.  The headers a caller supplies are part of the result in both    *)
(* modes.                                                                  *)
AuthHeaders ==
    /\ \A i \in 1..Len(calls) :
          IsRequest(calls[i]) =>
              LET sent == calls[i].headers
                  email == Get(authentication, "email", "")
                  api_auth == authentication["api-auth"]
              IN  IF TokenMode(authentication)
                  THEN /\ Carries(sent, "Bearer " \o api_auth) \/ Carries(sent, api_auth)
                       /\ Carries(sent, email)
                  ELSE /\ Carries(sent, api_auth)
                       /\ "X-Auth-Email" \notin DOMAIN sent
                       /\ email # "" => ~Carries(sent, email)
    /\ api # None =>
          \A headers \in CallerHeaders :
              \A h \in DOMAIN headers : getAuthHeaders(api, headers)[h] = headers[h]

====
